---------------------------- MODULE Spec2Model ----------------------------
(***************************************************************************)
(* A model of dependentspy: module-tree completion, import resolution,     *)
(* classification, the project import graph with pruning and the dead-end  *)
(* fixed point, cluster assignment, the visibility filter and the emitted  *)
(* import edges.                                                           *)
(*                                                                         *)
(* A path is a non-empty sequence of identifier segments.  A route is the  *)
(* string ".".join(path); it is modelled as the sequence of its tokens,    *)
(* segments separated by the token ".".  Segments are identifiers, so no   *)
(* segment holds the separator.  A module is a record; a module reference  *)
(* (parent, children, imports) is the module's index in its list, 0 for    *)
(* None.                                                                   *)
(***************************************************************************)
EXTENDS Integers, Sequences, FiniteSets, TLC

VARIABLES
    \* --- complete_module_tree in isolation
    tpc, tree_cls, tree_input, tree_before, tree,
    \* --- find_dead_ends in isolation
    dpc, dgraph, C, prev, new, todo, cur, cur_preds,
    \* --- the dependentspy pipeline
    pc, files, raw_imports, cfg, project_modules, project_routes,
    import_routes, external_modules, modules, route_map, imports, hide,
    gr, pruning, cluster_names, cluster_map, visible_modules, G, raised

treeVars == <<tpc, tree_cls, tree_input, tree_before, tree>>
deadVars == <<dpc, dgraph, C, prev, new, todo, cur, cur_preds>>
pipeVars == <<pc, files, raw_imports, cfg, project_modules, project_routes,
              import_routes, external_modules, modules, route_map, imports,
              hide, gr, pruning, cluster_names, cluster_map, visible_modules,
              G, raised>>
vars == <<treeVars, deadVars, pipeVars>>

-----------------------------------------------------------------------------
(* Bounds and universes *)

\* segments of module paths; "os" stands for a name of the builtin registry
Segs == {"a", "os"}

\* the longest path given to complete_module_tree in isolation
MaxDepth == 3
\* the most modules given to complete_module_tree in isolation
MaxMods == 2

\* nodes of the graphs given to find_dead_ends in isolation
DeadNodes == {"u", "v", "w", "x"}
\* the most edges of such a graph
MaxDeadEdges == 4

\* the most source files discovered under the project root
MaxFiles == 2

\* directory names and file stems of the discovered files
DirNames == {"a"}
Stems == Segs

\* the values of min_cluster_size
MinClusterSizes == 1..2

\* the host runtime's registry of builtin/standard module names
BuiltinNames == {"os"}

None == 0

\* no containing cluster (cluster_map[route] = None), and the top-level graph
NoCluster == <<>>

Range(s) == {s[i] : i \in DOMAIN s}

SeqsUpTo(S, n) == UNION {[1..k -> S] : k \in 1..n}

-----------------------------------------------------------------------------
(* Module entity *)

\* route = ".".join(path)
RECURSIVE Join(_)
Join(path) ==
    IF Len(path) = 1 THEN <<path[1]>>
    ELSE Join(SubSeq(path, 1, Len(path) - 1)) \o <<".", path[Len(path)]>>

\* path.split(".")
Split(route) == SelectSeq(route, LAMBDA t : t # ".")

\* Module(path) / ProjectModule(path, file_path): a fresh module without links
NewModule(path, cls, has_file) ==
    [path      |-> path,
     route     |-> Join(path),
     cls       |-> cls,
     file_path |-> has_file,
     parent    |-> None,
     children  |-> <<>>]

is_project(m) == m.cls = "ProjectModule"

\* is_builtin(name): membership in the registry
is_builtin_name(name) == name \in BuiltinNames

\* Module.is_builtin looks at the root segment alone, whatever the class
is_builtin(m) == is_builtin_name(m.path[1])

is_3rdparty(m) == ~is_project(m) /\ ~is_builtin(m)

\* Module.type
type(m) ==
    IF is_project(m) THEN "project"
    ELSE IF is_builtin(m) THEN "builtin"
    ELSE "3rdparty"

is_root(m) == m.parent = None

is_leaf(m) == m.children = <<>>

-----------------------------------------------------------------------------
(* complete_module_tree *)

\* route_map = {m.route: m for m in modules}: a later module replaces an
\* earlier one of the same route
RouteMapOf(mods) ==
    [r \in {mods[k].route : k \in DOMAIN mods} |->
        CHOOSE k \in DOMAIN mods :
            /\ mods[k].route = r
            /\ \A j \in DOMAIN mods : mods[j].route = r => j <= k]

\* a faulty variant of WalkPrefixes: a synthesized module is not entered
\* in route_map
RECURSIVE WalkPrefixesUnregistered(_, _, _, _, _)
WalkPrefixesUnregistered(st, child, path, i, cls) ==
    IF i < 1 THEN st
    ELSE
        LET subpath  == SubSeq(path, 1, i)
            subroute == Join(subpath)
            existing == subroute \in DOMAIN st.route_map
            parent   == IF existing THEN st.route_map[subroute]
                        ELSE Len(st.mods) + 1
            mods1    == IF existing THEN st.mods
                        ELSE Append(st.mods, NewModule(subpath, cls, FALSE))
            mods2    == [mods1 EXCEPT ![parent].children = Append(@, child)]
            mods3    == [mods2 EXCEPT ![child].parent = parent]
            st1      == [mods |-> mods3, route_map |-> st.route_map]
        IN  IF existing THEN st1
            ELSE WalkPrefixesUnregistered(st1, parent, path, i - 1, cls)

\* the inner loop: for i in reversed(range(1, len(m.path))), with
\* st = [mods, route_map]; synthesized modules are appended to mods, which
\* is list(modules) + inner_modules
RECURSIVE WalkPrefixes(_, _, _, _, _)
WalkPrefixes(st, child, path, i, cls) ==
    IF i < 1 THEN st
    ELSE
        LET subpath  == SubSeq(path, 1, i)
            subroute == Join(subpath)
            existing == subroute \in DOMAIN st.route_map
            parent   == IF existing THEN st.route_map[subroute]
                        ELSE Len(st.mods) + 1
            mods1    == IF existing THEN st.mods
                        ELSE Append(st.mods, NewModule(subpath, cls, FALSE))
            rmap1    == IF existing THEN st.route_map
                        ELSE (subroute :> parent) @@ st.route_map
            mods2    == [mods1 EXCEPT ![parent].children = Append(@, child)]
            mods3    == [mods2 EXCEPT ![child].parent = parent]
            st1      == [mods |-> mods3, route_map |-> rmap1]
        IN  IF existing THEN st1
            ELSE WalkPrefixes(st1, parent, path, i - 1, cls)

\* the outer loop: for m in modules
RECURSIVE WalkModules(_, _, _, _)
WalkModules(st, k, n, cls) ==
    IF k > n THEN st
    ELSE WalkModules(
            WalkPrefixes(st, k, st.mods[k].path, Len(st.mods[k].path) - 1, cls),
            k + 1, n, cls)

complete_module_tree(mods, cls) ==
    WalkModules([mods |-> mods, route_map |-> RouteMapOf(mods)],
                1, Len(mods), cls).mods

-----------------------------------------------------------------------------
(* The tree specification: complete_module_tree applied to fresh modules   *)
(* with pairwise distinct routes, then applied again to its own output.    *)

TreePaths == SeqsUpTo(Segs, MaxDepth)

TreeInputs ==
    {s \in UNION {[1..k -> TreePaths] : k \in 0..MaxMods} :
        \A i, j \in DOMAIN s : i # j => s[i] # s[j]}

TreeIdle ==
    /\ tpc = "off" /\ tree_cls = "Module" /\ tree_input = <<>>
    /\ tree_before = <<>> /\ tree = <<>>

DeadIdle ==
    /\ dpc = "off" /\ dgraph = [nodes |-> {}, edges |-> {}]
    /\ C = {} /\ prev = {} /\ new = {} /\ todo = {} /\ cur = None
    /\ cur_preds = {}

PipeIdle ==
    /\ pc = "off" /\ files = <<>> /\ raw_imports = <<>> /\ cfg = <<>>
    /\ project_modules = <<>> /\ project_routes = {} /\ import_routes = <<>>
    /\ external_modules = <<>> /\ modules = <<>> /\ route_map = <<>>
    /\ imports = <<>> /\ hide = <<>> /\ gr = [nodes |-> {}, edges |-> {}]
    /\ pruning = <<>> /\ cluster_names = {} /\ cluster_map = <<>>
    /\ visible_modules = <<>> /\ G = <<>> /\ raised = <<>>

TreeInit ==
    /\ tpc = "input"
    /\ tree_cls \in {"Module", "ProjectModule"}
    /\ \E s \in TreeInputs :
          /\ tree_input = [k \in DOMAIN s |-> NewModule(s[k], tree_cls, FALSE)]
          /\ tree = tree_input
    /\ tree_before = <<>>
    /\ DeadIdle /\ PipeIdle

\* the first call, on the fresh modules
CompleteTree ==
    /\ tpc = "input"
    /\ tree' = complete_module_tree(tree, tree_cls)
    /\ tree_before' = tree
    /\ tpc' = "completed"
    /\ UNCHANGED <<tree_cls, tree_input, deadVars, pipeVars>>

\* the second call, on the full output of the first
CompleteTreeAgain ==
    /\ tpc = "completed"
    /\ tree' = complete_module_tree(tree, tree_cls)
    /\ tree_before' = tree
    /\ tpc' = "again"
    /\ UNCHANGED <<tree_cls, tree_input, deadVars, pipeVars>>

TreeNext == CompleteTree \/ CompleteTreeAgain

TreeSpec == TreeInit /\ [][TreeNext]_vars

-----------------------------------------------------------------------------
(* Tree completion: claims *)

Occurrences(s, x) == Cardinality({i \in DOMAIN s : s[i] = x})

RECURSIVE ReachesRoot(_, _, _)
ReachesRoot(mods, k, fuel) ==
    IF mods[k].parent = None THEN TRUE
    ELSE fuel > 0 /\ ReachesRoot(mods, mods[k].parent, fuel - 1)

\* C1: after complete_module_tree on fresh modules with pairwise distinct
\* routes, every proper prefix of every input path is the path of exactly
\* one module of the result; a module of path length > 1 has as parent the
\* module of its path minus the last segment, is listed once in that
\* parent's children and in no other module's; a module of path length 1
\* has no parent; parent links reach a root without cycling.
TreeCompleteness ==
    tpc = "completed" =>
        /\ \A k \in DOMAIN tree_input :
              /\ tree[k].path = tree_input[k].path
              /\ \A i \in 1..(Len(tree_input[k].path) - 1) :
                    Cardinality({j \in DOMAIN tree :
                        tree[j].path = SubSeq(tree_input[k].path, 1, i)}) = 1
        /\ \A j \in DOMAIN tree :
              /\ Len(tree[j].path) > 1 =>
                    /\ tree[j].parent \in DOMAIN tree
                    /\ tree[tree[j].parent].path
                          = SubSeq(tree[j].path, 1, Len(tree[j].path) - 1)
                    /\ Occurrences(tree[tree[j].parent].children, j) = 1
              /\ Len(tree[j].path) = 1 => tree[j].parent = None
              /\ \A p \in DOMAIN tree :
                    j \in Range(tree[p].children) => tree[j].parent = p
              /\ ReachesRoot(tree, j, Len(tree))

\* C1 witness: a completed forest with synthesized ancestors, one of them
\* shared by two modules (the second walk stopped at the existing prefix)
TreeCompletenessWitness ==
    /\ tpc = "completed"
    /\ Len(tree) > Len(tree_input)
    /\ \E p \in DOMAIN tree :
          /\ p > Len(tree_input)
          /\ Len(tree[p].children) = 2
          /\ tree[p].parent # None

\* C3: the second call on the complete forest changes nothing: same
\* modules, same parent links, same children lists
CompletionIdempotent ==
    tpc = "again" => tree = tree_before

-----------------------------------------------------------------------------
(* find_dead_ends *)

Successors(g, v) == {e[2] : e \in {d \in g.edges : d[1] = v}}

Predecessors(g, u) == {e[1] : e \in {d \in g.edges : d[2] = u}}

out_degree(g, v) == Cardinality({e \in g.edges : e[1] = v})

in_degree(g, v) == Cardinality({e \in g.edges : e[2] = v})

\* a faulty variant of DeadVisit: the successors test is dropped
DeadVisitUnchecked(g, st, v) ==
    IF v \in st.C THEN st
    ELSE [C |-> st.C \cup {v}, new |-> st.new \cup {v}]

\* the body of "for v in gr.predecessors(u)", with st = [C, new]
DeadVisit(g, st, v) ==
    IF v \in st.C THEN st
    ELSE IF Successors(g, v) \subseteq st.C
         THEN [C |-> st.C \cup {v}, new |-> st.new \cup {v}]
         ELSE st

NoOut(g) == {v \in g.nodes : out_degree(g, v) = 0}

\* find_dead_ends as a function, visiting in one fixed order
RECURSIVE DeadVisitAll(_, _, _)
DeadVisitAll(g, st, vs) ==
    IF vs = {} THEN st
    ELSE LET v == CHOOSE x \in vs : TRUE
         IN  DeadVisitAll(g, DeadVisit(g, st, v), vs \ {v})

RECURSIVE DeadPass(_, _, _)
DeadPass(g, st, us) ==
    IF us = {} THEN st
    ELSE LET u == CHOOSE x \in us : TRUE
         IN  DeadPass(g, DeadVisitAll(g, st, Predecessors(g, u)), us \ {u})

RECURSIVE DeadLoop(_, _, _)
DeadLoop(g, c, p) ==
    IF p = {} THEN c
    ELSE LET st == DeadPass(g, [C |-> c, new |-> {}], p)
         IN  DeadLoop(g, st.C, st.new)

find_dead_ends(g) == DeadLoop(g, NoOut(g), NoOut(g))

-----------------------------------------------------------------------------
(* The dead-end specification: find_dead_ends on any graph with at most    *)
(* MaxDeadEdges edges, the frontier and the predecessors taken in any      *)
(* order.                                                                  *)

DeadEdgeSets ==
    {E \in SUBSET (DeadNodes \X DeadNodes) : Cardinality(E) <= MaxDeadEdges}

DeadInit ==
    /\ dpc = "call"
    /\ \E E \in DeadEdgeSets : dgraph = [nodes |-> DeadNodes, edges |-> E]
    /\ C = {} /\ prev = {} /\ new = {} /\ todo = {} /\ cur = None
    /\ cur_preds = {}
    /\ TreeIdle /\ PipeIdle

\* C = {*no_out}; prev = {*C}
DeadStart ==
    /\ dpc = "call"
    /\ C' = NoOut(dgraph)
    /\ prev' = NoOut(dgraph)
    /\ dpc' = "while"
    /\ UNCHANGED <<dgraph, new, todo, cur, cur_preds, treeVars, pipeVars>>

\* while prev: new = set()
DeadWhile ==
    /\ dpc = "while"
    /\ prev # {}
    /\ new' = {}
    /\ todo' = prev
    /\ dpc' = "for_u"
    /\ UNCHANGED <<dgraph, C, prev, cur, cur_preds, treeVars, pipeVars>>

\* the loop ends: return C
DeadReturn ==
    /\ dpc = "while"
    /\ prev = {}
    /\ dpc' = "done"
    /\ UNCHANGED <<dgraph, C, prev, new, todo, cur, cur_preds, treeVars,
                   pipeVars>>

\* for u in prev: the next u, in any order
DeadNextU ==
    /\ dpc = "for_u"
    /\ \E u \in todo :
          /\ cur' = u
          /\ cur_preds' = Predecessors(dgraph, u)
          /\ todo' = todo \ {u}
    /\ dpc' = "for_v"
    /\ UNCHANGED <<dgraph, C, prev, new, treeVars, pipeVars>>

\* prev = new
DeadEndPass ==
    /\ dpc = "for_u"
    /\ todo = {}
    /\ prev' = new
    /\ dpc' = "while"
    /\ UNCHANGED <<dgraph, C, new, todo, cur, cur_preds, treeVars, pipeVars>>

\* for v in gr.predecessors(u): the next v, in any order
DeadNextV ==
    /\ dpc = "for_v"
    /\ \E v \in cur_preds :
          LET st == DeadVisit(dgraph, [C |-> C, new |-> new], v)
          IN  /\ C' = st.C
              /\ new' = st.new
              /\ cur_preds' = cur_preds \ {v}
    /\ UNCHANGED <<dpc, dgraph, prev, todo, cur, treeVars, pipeVars>>

DeadEndU ==
    /\ dpc = "for_v"
    /\ cur_preds = {}
    /\ dpc' = "for_u"
    /\ UNCHANGED <<dgraph, C, prev, new, todo, cur, cur_preds, treeVars,
                   pipeVars>>

DeadNext ==
    \/ DeadStart \/ DeadWhile \/ DeadReturn \/ DeadNextU \/ DeadEndPass
    \/ DeadNextV \/ DeadEndU

DeadSpec == DeadInit /\ [][DeadNext]_vars

\* a set that holds the out-degree-0 nodes and every node all of whose
\* successors it holds
DeadClosed(g, S) ==
    \A v \in g.nodes : Successors(g, v) \subseteq S => v \in S

LeastDeadClosed(g) ==
    {v \in g.nodes : \A S \in SUBSET g.nodes : DeadClosed(g, S) => v \in S}

\* C2: whatever the order in which the frontier nodes and their
\* predecessors are taken, find_dead_ends returns the least set that holds
\* the out-degree-0 nodes and is closed under adding a node all of whose
\* successors are members.
DeadEndsLeastFixedPoint ==
    dpc = "done" => C = LeastDeadClosed(dgraph)

\* C2 witness: a returned set that grew beyond the out-degree-0 nodes on a
\* graph with a self-loop and a node left outside
DeadEndsWitness ==
    /\ dpc = "done"
    /\ \E v \in C : out_degree(dgraph, v) > 0
    /\ \E v \in dgraph.nodes : <<v, v>> \in dgraph.edges
    /\ C # dgraph.nodes

-----------------------------------------------------------------------------
(* Tree navigation *)

RECURSIVE get_root(_, _)
get_root(mods, k) ==
    IF mods[k].parent = None THEN k ELSE get_root(mods, mods[k].parent)

\* the modules from k up to its root, k included
RECURSIVE path_to_root(_, _)
path_to_root(mods, k) ==
    IF mods[k].parent = None THEN <<k>>
    ELSE <<k>> \o path_to_root(mods, mods[k].parent)

-----------------------------------------------------------------------------
(* Import resolution *)

\* the order of Python strings on routes: "." sorts before the letters
TokenRank(t) == CASE t = "." -> 0 [] t = "a" -> 1 [] OTHER -> 2

RECURSIVE RouteLess(_, _)
RouteLess(r1, r2) ==
    IF r1 = <<>> THEN r2 # <<>>
    ELSE IF r2 = <<>> THEN FALSE
    ELSE IF Head(r1) = Head(r2) THEN RouteLess(Tail(r1), Tail(r2))
    ELSE TokenRank(Head(r1)) < TokenRank(Head(r2))

\* sorted(set(...))
RECURSIVE Sorted(_)
Sorted(S) ==
    IF S = {} THEN <<>>
    ELSE LET m == CHOOSE x \in S : \A y \in S \ {x} : RouteLess(x, y)
         IN  <<m>> \o Sorted(S \ {m})

\* the disk holds the discovered files and their directories
PyFileExists(fs, p) == p \in Range(fs)

DirExists(fs, p) ==
    \E f \in Range(fs) : Len(f) > Len(p) /\ SubSeq(f, 1, Len(p)) = p

\* ProjectModule.import_routes, names being the names extracted from the
\* module's file; None (no file_path) is read as the empty list, as every
\* caller does with "or []"
import_routes_of(m, names, fs) ==
    IF ~m.file_path THEN <<>>
    ELSE [i \in DOMAIN names |->
            LET name  == names[i]
                first == Split(name)[1]
                dir   == SubSeq(m.path, 1, Len(m.path) - 1)
                local == \/ PyFileExists(fs, dir \o <<first>>)
                         \/ DirExists(fs, dir \o <<first>>)
            IN  IF local /\ dir # <<>> THEN Join(dir) \o <<".">> \o name
                ELSE name]

Flatten(ss) == UNION {Range(ss[i]) : i \in DOMAIN ss}

\* the indices of a list moved by d, as when it is appended to another list
ShiftRefs(mods, d) ==
    [k \in DOMAIN mods |->
        [mods[k] EXCEPT
            !.parent   = IF @ = None THEN None ELSE @ + d,
            !.children = [i \in DOMAIN @ |-> @[i] + d]]]

-----------------------------------------------------------------------------
(* Pruning, clusters, visibility, edges *)

\* the import graph of the project: nodes are the leaf project modules and
\* the ends of the added edges
ImportGraph(pmods, mods, imps) ==
    LET E == UNION {{<<pmods[k].route, mods[imps[k][i]].route>> :
                        i \in {j \in DOMAIN imps[k] :
                                  is_project(mods[imps[k][j]])}} :
                    k \in DOMAIN pmods}
    IN  [nodes |-> {pmods[k].route : k \in {j \in DOMAIN pmods : is_leaf(pmods[j])}}
                    \cup {e[1] : e \in E} \cup {e[2] : e \in E},
         edges |-> E]

\* assert im.is_leaf() fails for some project import
AssertionFails(pmods, mods, imps) ==
    \E k \in DOMAIN pmods : \E i \in DOMAIN imps[k] :
        is_project(mods[imps[k][i]]) /\ ~is_leaf(mods[imps[k][i]])

never_imported(pmods, g) ==
    SelectSeq([k \in DOMAIN pmods |-> pmods[k].route],
              LAMBDA r : \E k \in DOMAIN pmods :
                  pmods[k].route = r /\ is_leaf(pmods[k]) /\ in_degree(g, r) = 0)

\* a faulty variant of no_imports: the in-degree is read instead of the out-degree
no_imports_by_in_degree(pmods, g) ==
    SelectSeq([k \in DOMAIN pmods |-> pmods[k].route],
              LAMBDA r : \E k \in DOMAIN pmods :
                  pmods[k].route = r /\ is_leaf(pmods[k]) /\ in_degree(g, r) = 0)

no_imports(pmods, g) ==
    SelectSeq([k \in DOMAIN pmods |-> pmods[k].route],
              LAMBDA r : \E k \in DOMAIN pmods :
                  pmods[k].route = r /\ is_leaf(pmods[k]) /\ out_degree(g, r) = 0)

\* a faulty variant of ClusterNames: a module needs more children than
\* min_cluster_size
ClusterNamesAboveMinimum(mods, np, c, hidden) ==
    IF ~c.use_clusters THEN {}
    ELSE {mods[k].route :
            k \in {j \in (IF c.summarize_external THEN 1..np ELSE DOMAIN mods) :
                /\ ~is_leaf(mods[j])
                /\ (c.use_nested_clusters \/ is_root(mods[j]))
                /\ Len(mods[j].children) > c.min_cluster_size
                /\ mods[j].route \notin Range(hidden)}}

\* the routes that get a cluster
ClusterNames(mods, np, c, hidden) ==
    IF ~c.use_clusters THEN {}
    ELSE {mods[k].route :
            k \in {j \in (IF c.summarize_external THEN 1..np ELSE DOMAIN mods) :
                /\ ~is_leaf(mods[j])
                /\ (c.use_nested_clusters \/ is_root(mods[j]))
                /\ Len(mods[j].children) >= c.min_cluster_size
                /\ mods[j].route \notin Range(hidden)}}

\* a faulty variant of ContainerOf: the root of the module, cluster or not
ContainerOfRoot(mods, k, names, summarize) ==
    IF ~is_project(mods[k]) /\ summarize THEN NoCluster
    ELSE mods[get_root(mods, k)].route

\* walk up the tree until a module has a cluster
ContainerOf(mods, k, names, summarize) ==
    IF ~is_project(mods[k]) /\ summarize THEN NoCluster
    ELSE LET up   == path_to_root(mods, k)
             hits == {i \in DOMAIN up : mods[up[i]].route \in names}
         IN  IF hits = {} THEN NoCluster
             ELSE mods[up[CHOOSE i \in hits : \A j \in hits : i <= j]].route

\* cluster_map: modules are taken in list order, so the last module of a
\* route decides the entry of that route
ClusterMap(mods, names, c) ==
    IF ~c.use_clusters THEN <<>>
    ELSE LET last == RouteMapOf(mods)
         IN  [r \in DOMAIN last |->
                 ContainerOf(mods, last[r], names, c.summarize_external)]

\* the visibility filter
Visible(mods, k, c, hidden, names) ==
    /\ ~(~c.show_builtin /\ is_builtin(mods[k]))
    /\ ~(~c.show_3rdparty /\ is_3rdparty(mods[k]))
    /\ mods[k].route \notin Range(hidden)
    /\ ~(~is_project(mods[k]) /\ c.summarize_external /\ ~is_root(mods[k]))
    /\ mods[k].route \notin names

\* cluster_map.get(route, None)
ContainingGraph(cmap, route) ==
    IF route \in DOMAIN cmap THEN cmap[route] ELSE NoCluster

\* a faulty variant of EdgeTarget: visibility is checked on the import as resolved,
\* before the fallback to the root
EdgeTargetCheckedFirst(mods, im, summarize, vis) ==
    IF im \notin Range(vis) THEN None
    ELSE IF ~is_project(mods[im]) /\ summarize THEN get_root(mods, im)
    ELSE im

\* the head of the import edge for import im, None when no edge is added
EdgeTarget(mods, im, summarize, vis) ==
    LET t == IF ~is_project(mods[im]) /\ summarize THEN get_root(mods, im)
             ELSE im
    IN  IF t \in Range(vis) THEN t ELSE None

\* create_graphviz: what the graph holds
Graphviz(mods, rmap, imps, vis, names, cmap, c) ==
    [node_graph |->
        [k \in Range(vis) |-> ContainingGraph(cmap, mods[k].route)],
     parent_edges |->
        {<<mods[k].parent, k>> :
            k \in {j \in Range(vis) :
                /\ mods[j].parent # None
                /\ ~c.use_nested_clusters
                /\ mods[j].parent \in Range(vis)}},
     subgraph_parent |->
        [r \in names |->
            IF mods[rmap[r]].parent # None
            THEN ContainingGraph(cmap, mods[mods[rmap[r]].parent].route)
            ELSE NoCluster],
     import_edges |->
        IF ~c.render_imports THEN {}
        ELSE LET heads(k) ==
                     {EdgeTarget(mods, imps[k][i], c.summarize_external, vis) :
                         i \in DOMAIN imps[k]} \ {None}
             IN  UNION {{<<k, t>> : t \in heads(k)} :
                     k \in {j \in Range(vis) : is_project(mods[j])}}]

-----------------------------------------------------------------------------
(* The pipeline specification: one run of dependentspy.  An option is      *)
(* drawn where the run first reads it.                                     *)

FilePaths ==
    {d \o <<s>> : d \in {<<>>} \cup SeqsUpTo(DirNames, 2), s \in Stems}

\* the discovered files, taken in the order of their routes (the order of
\* the module lists does not enter any set the later stages compute; every
\* order of the input of complete_module_tree is covered by TreeSpec)
FileLists ==
    {[i \in 1..Cardinality(S) |-> Split(Sorted({Join(q) : q \in S})[i])] :
        S \in {T \in SUBSET FilePaths : Cardinality(T) <= MaxFiles}}

\* the names a file may import
ImportNames == {<<"a">>, <<"os">>, <<"a", ".", "a">>, <<"os", ".", "a">>}

\* the import statements of one file: none or one
ImportLists == {<<>>} \cup {<<n>> : n \in ImportNames}

HideOptions(fs) ==
    {<<>>} \cup (IF fs = <<>> THEN {} ELSE {<<Join(fs[1])>>})

PipeInit ==
    /\ pc = "discover"
    /\ files \in FileLists
    /\ raw_imports \in [DOMAIN files -> ImportLists]
    /\ cfg \in {[hide |-> h] : h \in HideOptions(files)}
    /\ project_modules = <<>> /\ project_routes = {} /\ import_routes = <<>>
    /\ external_modules = <<>> /\ modules = <<>> /\ route_map = <<>>
    /\ imports = <<>> /\ hide = cfg.hide
    /\ gr = [nodes |-> {}, edges |-> {}]
    /\ pruning = <<>> /\ cluster_names = {} /\ cluster_map = <<>>
    /\ visible_modules = <<>> /\ G = <<>> /\ raised = <<>>
    /\ TreeIdle /\ DeadIdle

\* no .py file under the project root
NoFiles ==
    /\ pc = "discover"
    /\ files = <<>>
    /\ raised' = [exc |-> "ValueError", at |-> None]
    /\ pc' = "raised"
    /\ UNCHANGED <<files, raw_imports, cfg, project_modules, project_routes,
                   import_routes, external_modules, modules, route_map,
                   imports, hide, gr, pruning, cluster_names, cluster_map,
                   visible_modules, G, treeVars, deadVars>>

\* the project wave and its tree
Discover ==
    /\ pc = "discover"
    /\ files # <<>>
    /\ LET leaves == [k \in DOMAIN files |->
                          NewModule(files[k], "ProjectModule", TRUE)]
       IN  /\ project_routes' = {leaves[k].route : k \in DOMAIN leaves}
           /\ project_modules' = complete_module_tree(leaves, "ProjectModule")
    /\ pc' = "collect"
    /\ UNCHANGED <<files, raw_imports, cfg, import_routes, external_modules,
                   modules, route_map, imports, hide, gr, pruning,
                   cluster_names, cluster_map, visible_modules, G, raised,
                   treeVars, deadVars>>

\* import extraction raises on file k, the first file that does not parse
ExtractionFails ==
    /\ pc = "collect"
    /\ \E k \in DOMAIN files : raised' = [exc |-> "SyntaxError", at |-> k]
    /\ pc' = "raised"
    /\ UNCHANGED <<files, raw_imports, cfg, project_modules, project_routes,
                   import_routes, external_modules, modules, route_map,
                   imports, hide, gr, pruning, cluster_names, cluster_map,
                   visible_modules, G, treeVars, deadVars>>

\* every file parses: the import routes, the external wave and its tree,
\* the merged list and the import relations
CollectImports ==
    /\ pc = "collect"
    /\ LET routes == [k \in DOMAIN project_modules |->
                        import_routes_of(project_modules[k],
                            IF k \in DOMAIN raw_imports THEN raw_imports[k]
                            ELSE <<>>, files)]
           sorted == Sorted(Flatten(routes))
           fresh  == SelectSeq(sorted, LAMBDA r : r \notin project_routes)
           ext    == complete_module_tree(
                        [i \in DOMAIN fresh |->
                            NewModule(Split(fresh[i]), "Module", FALSE)],
                        "Module")
           all    == project_modules \o ShiftRefs(ext, Len(project_modules))
           rmap   == RouteMapOf(all)
       IN  /\ import_routes' = sorted
           /\ external_modules' = ext
           /\ modules' = all
           /\ route_map' = rmap
           /\ imports' = [k \in DOMAIN project_modules |->
                            [i \in DOMAIN routes[k] |-> rmap[routes[k][i]]]]
    /\ pc' = "graph"
    /\ UNCHANGED <<files, raw_imports, cfg, project_modules, project_routes,
                   hide, gr, pruning, cluster_names, cluster_map,
                   visible_modules, G, raised, treeVars, deadVars>>

\* hide = []; the import graph; an import of a project module with
\* children fails the assertion
BuildGraph ==
    /\ pc = "graph"
    /\ hide' = <<>>
    /\ IF AssertionFails(project_modules, modules, imports)
       THEN /\ raised' = [exc |-> "AssertionError", at |-> None]
            /\ pc' = "raised"
            /\ gr' = gr
       ELSE /\ gr' = ImportGraph(project_modules, modules, imports)
            /\ pc' = "prune"
            /\ raised' = raised
    /\ UNCHANGED <<files, raw_imports, cfg, project_modules, project_routes,
                   import_routes, external_modules, modules, route_map,
                   imports, pruning, cluster_names, cluster_map,
                   visible_modules, G, treeVars, deadVars>>

\* if prune: hide += never_imported + no_imports
Prune ==
    /\ pc = "prune"
    /\ \E p \in BOOLEAN :
          /\ cfg' = cfg @@ [prune |-> p]
          /\ IF p
             THEN LET ni == never_imported(project_modules, gr)
                      no == no_imports(project_modules, gr)
                  IN  /\ pruning' = [never_imported |-> ni,
                                     no_imports     |-> no,
                                     dead_ends      |-> find_dead_ends(gr)]
                      /\ hide' = hide \o ni \o no
             ELSE /\ pruning' = pruning
                  /\ hide' = hide
    /\ pc' = "cluster"
    /\ UNCHANGED <<files, raw_imports, project_modules, project_routes,
                   import_routes, external_modules, modules, route_map,
                   imports, gr, cluster_names, cluster_map, visible_modules,
                   G, raised, treeVars, deadVars>>

\* the clusters and the containing cluster of each module
Cluster ==
    /\ pc = "cluster"
    /\ \E uc \in BOOLEAN, un \in BOOLEAN, ms \in MinClusterSizes, se \in BOOLEAN :
          LET c == cfg @@ [use_clusters        |-> uc,
                           use_nested_clusters |-> uc /\ un,
                           min_cluster_size    |-> ms,
                           summarize_external  |-> se]
              names == ClusterNames(modules, Len(project_modules), c, hide)
          IN  /\ cfg' = c
              /\ cluster_names' = names
              /\ cluster_map' = ClusterMap(modules, names, c)
    /\ pc' = "filter"
    /\ UNCHANGED <<files, raw_imports, project_modules, project_routes,
                   import_routes, external_modules, modules, route_map,
                   imports, hide, gr, pruning, visible_modules, G, raised,
                   treeVars, deadVars>>

\* the modules rendered as nodes
Filter ==
    /\ pc = "filter"
    /\ \E sb \in BOOLEAN, st \in BOOLEAN :
          LET c == cfg @@ [show_builtin |-> sb, show_3rdparty |-> st]
          IN  /\ cfg' = c
              /\ visible_modules' =
                    SelectSeq([k \in DOMAIN modules |-> k],
                        LAMBDA k : Visible(modules, k, c, hide, cluster_names))
    /\ pc' = "render"
    /\ UNCHANGED <<files, raw_imports, project_modules, project_routes,
                   import_routes, external_modules, modules, route_map,
                   imports, hide, gr, pruning, cluster_names, cluster_map,
                   G, raised, treeVars, deadVars>>

\* create_graphviz
Render ==
    /\ pc = "render"
    /\ \E ri \in BOOLEAN :
          LET c == cfg @@ [render_imports |-> ri]
          IN  /\ cfg' = c
              /\ G' = Graphviz(modules, route_map, imports, visible_modules,
                               cluster_names, cluster_map, c)
    /\ pc' = "done"
    /\ UNCHANGED <<files, raw_imports, project_modules, project_routes,
                   import_routes, external_modules, modules, route_map,
                   imports, hide, gr, pruning, cluster_names, cluster_map,
                   visible_modules, raised, treeVars, deadVars>>

Next ==
    \/ NoFiles \/ Discover \/ ExtractionFails \/ CollectImports
    \/ BuildGraph \/ Prune \/ Cluster \/ Filter \/ Render

Init == PipeInit

Spec == Init /\ [][Next]_vars

-----------------------------------------------------------------------------
(* The pipeline: claims *)

Clustered == pc \in {"filter", "render", "done"}

Pruned == pc \in {"cluster", "filter", "render", "done"}

Linked == pc \in {"graph", "prune", "cluster", "filter", "render", "done"}

RoutesUp(k) == {modules[j].route : j \in Range(path_to_root(modules, k))}

\* C4: a module whose route is listed in the hide option is never a
\* visible node and never a cluster-container, whatever prune is.
ExplicitHidingHonoured ==
    pc = "done" =>
        /\ \A k \in Range(visible_modules) :
              modules[k].route \notin Range(cfg.hide)
        /\ \A r \in Range(cfg.hide) : r \notin cluster_names

\* C5: the builtin toggle acts on the kind: a module of kind project that
\* is not in the hide-set and has no cluster of its own is a visible node,
\* also when its root segment is in the builtin registry.
KindBasedSuppression ==
    pc = "done" =>
        \A k \in DOMAIN modules :
            (/\ type(modules[k]) = "project"
             /\ modules[k].route \notin Range(hide)
             /\ modules[k].route \notin cluster_names)
            => k \in Range(visible_modules)

\* C6: a file whose import extraction fails does not abort the run.
ExtractionFailureIsolated ==
    pc = "raised" => raised.exc # "SyntaxError"

RoutesDistinct ==
    \A i, j \in DOMAIN modules : modules[i].route = modules[j].route => i = j

RECURSIVE ChainEnds(_, _)
ChainEnds(r, fuel) ==
    \/ cluster_map[r] = NoCluster
    \/ cluster_map[r] = r
    \/ /\ fuel > 0
       /\ cluster_map[r] \in DOMAIN cluster_map
       /\ ChainEnds(cluster_map[r], fuel - 1)

EdgeRedirection ==
    pc = "done" =>
        /\ \A e \in G.import_edges :
              /\ e[1] \in Range(visible_modules)
              /\ e[2] \in Range(visible_modules)
              /\ (cfg.summarize_external /\ ~is_project(modules[e[2]]))
                    => is_root(modules[e[2]])
        /\ (cfg.render_imports /\ cfg.summarize_external) =>
              \A k \in Range(visible_modules) :
                  is_project(modules[k]) =>
                      \A i \in DOMAIN imports[k] :
                          (/\ ~is_project(modules[imports[k][i]])
                           /\ get_root(modules, imports[k][i])
                                 \in Range(visible_modules))
                          => <<k, get_root(modules, imports[k][i])>>
                                 \in G.import_edges

\* C8 witness: an edge drawn to the root of an imported non-root external
\* module
EdgeRedirectionWitness ==
    /\ pc = "done"
    /\ cfg.summarize_external
    /\ \E e \in G.import_edges :
          \E i \in DOMAIN imports[e[1]] :
              /\ ~is_project(modules[imports[e[1]][i]])
              /\ ~is_root(modules[imports[e[1]][i]])
              /\ e[2] = get_root(modules, imports[e[1]][i])

LeafProjectRoutes ==
    {project_modules[k].route :
        k \in {j \in DOMAIN project_modules : is_leaf(project_modules[j])}}

\* C9: with prune the hide-set is exactly the leaf project modules that no
\* edge of the import graph enters or that no edge leaves, so a dead end
\* that is neither is not added; without prune nothing is added.
PruningMonotone ==
    Pruned =>
        IF cfg.prune
        THEN Range(hide) =
                {r \in LeafProjectRoutes :
                    \/ ~\E e \in gr.edges : e[2] = r
                    \/ ~\E e \in gr.edges : e[1] = r}
        ELSE hide = <<>>

\* C9 witness: pruning hid one leaf and left another, with a dead end found
PruningWitness ==
    /\ Pruned
    /\ cfg.prune
    /\ pruning.dead_ends # {}
    /\ \E r \in LeafProjectRoutes : r \in Range(hide)
    /\ \E r \in LeafProjectRoutes : r \notin Range(hide)

\* C10: in the merged module list every route identifies exactly one
\* module: no external module has the route of a module of the completed
\* project tree.
RouteUnique ==
    Linked => RoutesDistinct

\* C11, read on the runs whose modules have pairwise distinct routes:
\* after cross-linking every module referenced in a project module's
\* resolved imports is a leaf, project and external targets alike, and
\* the assertion made while the import graph is built never fails.
ResolvedImportsAreLeaves ==
    /\ (Linked /\ RoutesDistinct) =>
          \A k \in DOMAIN imports : \A i \in DOMAIN imports[k] :
              is_leaf(modules[imports[k][i]])
    /\ pc = "raised" => raised.exc # "AssertionError"

\* the conditions of the cluster eligibility rule, on module k
EligibleByRule(k) ==
    /\ cfg.use_clusters
    /\ modules[k].route \notin Range(hide)
    /\ Len(modules[k].children) >= cfg.min_cluster_size
    /\ (cfg.use_nested_clusters \/ is_root(modules[k]))

\* C12 as stated, read on the runs whose modules have pairwise distinct
\* routes: a non-leaf module, project or external, has a cluster if and
\* only if clustering is enabled, its route is not hidden, it has at least
\* min_cluster_size children and, nested clustering disabled, it is a
\* root; a leaf never has one.
ClusterEligibilityAsStated ==
    (Clustered /\ RoutesDistinct) =>
        \A k \in DOMAIN modules :
            IF is_leaf(modules[k])
            THEN modules[k].route \notin cluster_names
            ELSE modules[k].route \in cluster_names <=> EligibleByRule(k)

\* C12 as amended: the routes that have a cluster are exactly the routes
\* of the non-leaf modules that meet the rule and are project modules or,
\* summarize_external being false, external ones; with summarize_external
\* no external module is made a cluster-container.
ClusterEligibility ==
    Clustered =>
        cluster_names =
            {modules[k].route :
                k \in {j \in DOMAIN modules :
                    /\ ~is_leaf(modules[j])
                    /\ EligibleByRule(j)
                    /\ (is_project(modules[j]) \/ ~cfg.summarize_external)}}

\* C12 witness: a project package has a cluster while an external package
\* that meets the rule has none, externals being summarized
ClusterEligibilityWitness ==
    /\ Clustered
    /\ cfg.summarize_external
    /\ \E k \in DOMAIN modules :
          /\ is_project(modules[k])
          /\ modules[k].route \in cluster_names
    /\ \E k \in DOMAIN modules :
          /\ ~is_project(modules[k])
          /\ ~is_leaf(modules[k])
          /\ EligibleByRule(k)
          /\ modules[k].route \notin cluster_names

=============================================================================
